---- MODULE Spec2Model ----
(***************************************************************************)
(* Model of pkg/engine/handlers/mutation/common.go: the recursive          *)
(* mutate-foreach evaluator (forEachMutator.mutateForEach and              *)
(* forEachMutator.mutateElements) and the JSON context it threads through  *)
(* the recursion.  The Go call stack is the sequence `stack`; one frame    *)
(* holds the fields of one forEachMutator and the locals of the two        *)
(* methods running on it.                                                  *)
(***************************************************************************)
EXTENDS Integers, Sequences, FiniteSets, TLC

\* ------------------------------------------------------------------ bounds
MaxSpecs == 2
MaxLen == 2
MaxNesting == 1
MaxNodes == 2
MaxElems == 3

\* --------------------------------------------------------------- encodings
\* a nil element of the evaluated list
Null == 0
\* unstructured.Unstructured{}: the resource of an outcome that carries none
EmptyRes == 0
\* the resource the top-level forEachMutator is constructed with
BaseRes == 1
\* a nil error
NoErr == "nil"

Last(s) == s[Len(s)]
Front(s) == SubSeq(s, 1, Len(s) - 1)

\* ------------------------------------------------------- rule (the input)
\* kyvernov1.ForEachMutation, the fields the evaluator reads:
\*   smp  : RawPatchStrategicMerge != nil
\*   kind : "nil"  ForEachMutation == nil (a leaf, mutated directly)
\*          "bad"  ForEachMutation holds JSON that does not deserialize
\*          "list" ForEachMutation deserializes to `list`
RECURSIVE Nodes(_)
RECURSIVE NodesFrom(_, _)
NodesFrom(l, k) ==
    IF k > Len(l) THEN 0 ELSE 1 + Nodes(l[k].list) + NodesFrom(l, k + 1)
\* the number of specs in a foreach list, nested ones included
Nodes(l) == NodesFrom(l, 1)

\* the foreach lists at nesting d of at most m specs and at most b specs in
\* all, nested ones included
RECURSIVE ForEachLists(_, _, _)
RECURSIVE SpecsAt(_, _)
SpecsAt(d, b) ==
    {[smp |-> s, kind |-> "nil", list |-> <<>>] : s \in BOOLEAN}
    \cup {[smp |-> FALSE, kind |-> "bad", list |-> <<>>]}
    \cup (IF d < MaxNesting
          THEN {[smp |-> s, kind |-> "list", list |-> l] :
                    s \in BOOLEAN, l \in ForEachLists(d + 1, b, MaxSpecs)}
          ELSE {})
ForEachLists(d, b, m) ==
    {<<>>} \cup
    (IF b >= 1 /\ m >= 1
     THEN UNION { {<<s>> \o rest :
                      rest \in ForEachLists(d, b - 1 - Nodes(s.list), m - 1)} :
                  s \in SpecsAt(d, b - 1) }
     ELSE {})

Rules == ForEachLists(0, MaxNodes, MaxSpecs)

\* ------------------------------------------------ external collaborators
\* engineutils.EvaluateList: an error, or a list whose k-th entry is nil or
\* the element declared at position k
ListError == <<-1>>
Lists == {l \in UNION {[1..n -> 0..MaxLen] : n \in 0..MaxLen} :
              \A k \in 1..Len(l) : l[k] \in {Null, k}}
ListResults == Lists \cup {ListError}

RECURSIVE Reverse(_)
Reverse(s) == IF s = <<>> THEN <<>> ELSE Append(Reverse(Tail(s)), Head(s))
\* engineutils.InvertedElement reverses the slice in place
InvertedElement(elements) == Reverse(elements)

\* ------------------------------------------------------------- responses
\* mutate.Response
Response(status, resource, patches, message, cause) ==
    [status |-> status, patchedResource |-> resource, patches |-> patches,
     message |-> message, cause |-> cause]
NewResponse(status, resource, patches, msg) ==
    Response(status, resource, patches, msg, NoErr)
NewErrorResponse(msg, err) ==
    Response("error", EmptyRes, <<>>, msg, err)
NoResp == Response("none", EmptyRes, <<>>, "", NoErr)

\* raw patches ([]byte).  enc: "raw" as the mutator wrote it, "canon" as
\* JsonPatchOperation.MarshalJSON writes it, "malformed" not JSON
RawPatch(path, value) == [path |-> path, value |-> value, enc |-> "raw"]
Malformed == [path |-> 0, value |-> 0, enc |-> "malformed"]
\* json.Unmarshal(p, &jp)
UnmarshalOk(p) == p.enc # "malformed"
Unmarshal(p) == [op |-> "add", path |-> p.path, value |-> p.value]
\* jp.MarshalJSON(), when it succeeds
MarshalJSON(jp) == [path |-> jp.path, value |-> jp.value, enc |-> "canon"]

RECURSIVE MapSeq(_, _)
MapSeq(s, k) == IF k > Len(s) THEN <<>> ELSE <<Unmarshal(s[k])>> \o MapSeq(s, k + 1)
RECURSIVE MarshalAll(_)
MarshalAll(s) == IF s = <<>> THEN <<>> ELSE <<MarshalJSON(Head(s))>> \o MarshalAll(Tail(s))

\* patch.FilterAndSortPatches: one operation per path (the last one under
\* the deterministic order wins), ordered by path
Max(S) == CHOOSE x \in S : \A y \in S : y <= x
Min(S) == CHOOSE x \in S : \A y \in S : x <= y
RECURSIVE SortPaths(_, _)
SortPaths(ops, paths) ==
    IF paths = {} THEN <<>>
    ELSE LET p == Min(paths)
             v == Max({ops[k].value : k \in {j \in 1..Len(ops) : ops[j].path = p}})
         IN <<[op |-> "add", path |-> p, value |-> v]>> \o SortPaths(ops, paths \ {p})
FilterAndSortPatches(ops) == SortPaths(ops, {ops[k].path : k \in 1..Len(ops)})

\* mutate.ForEach: the outcomes of the single-element mutator for `element`,
\* able to name `fresh` as the resource it produced
MutatorResponses(element, fresh) ==
    { Response("pass", fresh, <<RawPatch(element, fresh)>>, "", NoErr),
      Response("pass", fresh, <<Malformed>>, "", NoErr),
      Response("skip", EmptyRes, <<>>, "no patches", NoErr),
      Response("fail", EmptyRes, <<>>, "mutate failed", NoErr),
      Response("error", EmptyRes, <<>>, "mutate error", "mutateErr") }

\* ------------------------------------------------------------ JSON context
\* enginecontext.Interface: the resource and the variable bindings
Context(resource, bindings) == [resource |-> resource, bindings |-> bindings]
\* AddResource
AddResource(ctx, resource) == [ctx EXCEPT !.resource = resource]
\* policyContext.Copy(): an isolated child
Copy(ctx) == ctx
\* engineutils.AddElementToContext
AddElementToContext(ctx, element, index, nesting, spec) ==
    [ctx EXCEPT !.bindings = @ \cup
        {[name |-> "element", value |-> element, index |-> index,
          nesting |-> nesting, spec |-> spec]}]
\* contextLoader(ctx, foreach.Context, jsonContext)
LoadContext(ctx, element, index, nesting, spec) ==
    [ctx EXCEPT !.bindings = @ \cup
        {[name |-> "loaded", value |-> element, index |-> index,
          nesting |-> nesting, spec |-> spec]}]

\* ------------------------------------------------------------------ state
VARIABLES stack, jsonCtx, ckpts, result, nextRes, budget, unmatched, g,
          mutateResp, targets, ruleResponse
vars == <<stack, jsonCtx, ckpts, result, nextRes, budget, unmatched, g,
          mutateResp, targets, ruleResponse>>

\* one forEachMutator and the locals of mutateForEach / mutateElements on it.
\* From passed on the fields are history: the resource handed to the mutator
\* and who was called (passed, via), the outcomes of the elements of the
\* current spec (elemLog), the specs whose list was evaluated (evald), the
\* patches each completed spec returned (specLog), the events of the current
\* spec (ev), the context's resource at the checkpoint (ckptRes), whether the
\* last AddResource succeeded (added), the evaluator's and the context's
\* resource as the last completed spec left them (setRes, setCtx), the list
\* as EvaluateList returned it (declared), the elements bound and the
\* precondition results of the current spec (bound, checked), and the base and
\* accumulated resource of the last spec that returned (specBase, specAccum,
\* specDone).
NewFrame(foreach, nesting, resource) ==
    [foreach |-> foreach, nesting |-> nesting, resource |-> resource,
     pc |-> "loop", i |-> 1, applyCount |-> 0, allPatches |-> <<>>,
     specResp |-> NoResp,
     elements |-> <<>>, index |-> 0, patchedResource |-> resource,
     elPatches |-> <<>>, child |-> Context(EmptyRes, {}), elemResp |-> NoResp,
     passed |-> EmptyRes, via |-> "none", elemLog |-> <<>>,
     evald |-> <<>>, specLog |-> <<>>, ev |-> <<>>,
     ckptRes |-> EmptyRes, added |-> FALSE, setRes |-> EmptyRes,
     setCtx |-> EmptyRes, declared |-> <<>>, bound |-> <<>>, checked |-> <<>>,
     specBase |-> EmptyRes, specAccum |-> EmptyRes, specDone |-> FALSE]

Top == stack[Len(stack)]
SetTop(f) == [stack EXCEPT ![Len(stack)] = f]
Cur(f) == f.foreach[f.i]
At(pc) == stack # <<>> /\ Top.pc = pc

\* bookkeeping about the run, read only by the properties
Err(gh, resp, where) ==
    [gh EXCEPT !.errored = TRUE,
               !.origin = IF gh.errored THEN @ ELSE resp,
               !.where = IF gh.errored THEN @ ELSE where]
Step(gh) ==
    [gh EXCEPT !.afterErr = @ \/ gh.errored, !.afterFail = @ \/ gh.failed]

\* Checkpoint / Restore / Reset of the JSON context
Checkpoint(ctx, saved) == Append(saved, ctx)
Restore(ctx, saved) == IF saved = <<>> THEN ctx ELSE Last(saved)
Reset(ctx, saved) == IF saved = <<>> THEN ctx ELSE Last(saved)
Pop(saved) == IF saved = <<>> THEN <<>> ELSE Front(saved)

\* the foreach list of the rule: that of the top-level forEachMutator
rule == stack[1].foreach

Init ==
    /\ \E r \in Rules : stack = <<NewFrame(r, 0, BaseRes)>>
    /\ jsonCtx = Context(BaseRes, {})
    /\ ckpts = <<>>
    /\ result = NoResp
    /\ nextRes = BaseRes + 1
    /\ budget = MaxElems
    /\ unmatched = FALSE
    /\ g = [errored |-> FALSE, failed |-> FALSE, afterErr |-> FALSE,
            afterFail |-> FALSE, anyPassed |-> FALSE, origin |-> NoResp,
            where |-> "none"]
    /\ mutateResp = NoResp
    /\ targets = 0
    /\ ruleResponse = <<>>

\* ReturnForEach putting the top-level evaluator's resource back to the one
\* it was constructed with when it returns Error
ReturnForEachRollback(f, resp) ==
    IF Len(stack) = 1
    THEN /\ stack' = <<[f EXCEPT !.pc = "done",
                                 !.resource = IF resp.status = "error"
                                              THEN BaseRes ELSE @]>>
         /\ result' = resp
    ELSE /\ stack' = [Front(stack) EXCEPT ![Len(stack) - 1] =
                          [@ EXCEPT !.elemResp = resp, !.pc = "result"]]
         /\ result' = result

\* a return of mutateForEach: to the caller's element loop, or out of the
\* top-level call
ReturnForEach(f, resp) ==
    IF Len(stack) = 1
    THEN /\ stack' = <<[f EXCEPT !.pc = "done"]>>
         /\ result' = resp
    ELSE /\ stack' = [Front(stack) EXCEPT ![Len(stack) - 1] =
                          [@ EXCEPT !.elemResp = resp, !.pc = "result"]]
         /\ result' = result

\* ReturnElements with the Restore called at the end of the function body
\* instead of deferred: the early returns leave the checkpoint outstanding
ReturnElementsNoDefer(f, resp, ctx) ==
    /\ stack' = SetTop([f EXCEPT !.specResp = resp, !.pc = "specResult",
                                 !.ev = IF resp.status = "pass"
                                        THEN Append(@, "restore") ELSE @,
                                 !.specBase = f.resource,
                                 !.specAccum = f.patchedResource,
                                 !.specDone = (resp.status # "error")])
    /\ jsonCtx' = IF resp.status = "pass" THEN Restore(ctx, ckpts) ELSE ctx
    /\ ckpts' = IF resp.status = "pass" THEN Pop(ckpts) ELSE ckpts
    /\ unmatched' = (unmatched \/ (resp.status = "pass" /\ ckpts = <<>>))

\* a return of mutateElements; the deferred Restore runs on every one
ReturnElements(f, resp, ctx) ==
    /\ stack' = SetTop([f EXCEPT !.specResp = resp, !.pc = "specResult",
                                 !.ev = Append(@, "restore"),
                                 !.specBase = f.resource,
                                 !.specAccum = f.patchedResource,
                                 !.specDone = (resp.status # "error")])
    /\ jsonCtx' = Restore(ctx, ckpts)
    /\ ckpts' = Pop(ckpts)
    /\ unmatched' = (unmatched \/ ckpts = <<>>)

\* mutateForEach, lines 34-39: EvaluateList for the next spec
EvaluateList ==
    /\ At("loop") /\ Top.i <= Len(Top.foreach)
    /\ \E r \in ListResults :
         IF r = ListError
         THEN LET resp == NewErrorResponse("failed to evaluate list", "listErr")
              IN /\ ReturnForEach([Top EXCEPT !.evald = Append(@, Top.i),
                                                  !.ev = <<"list">>,
                                                  !.ckptRes = EmptyRes,
                                                  !.added = FALSE], resp)
                 /\ g' = Err(Step(g), resp, "list")
                 /\ budget' = budget
         ELSE /\ Len(r) <= budget
              /\ budget' = budget - Len(r)
              /\ stack' = SetTop([Top EXCEPT !.elements = r, !.pc = "enter",
                                             !.specResp = NoResp,
                                             !.index = 0, !.elPatches = <<>>,
                                             !.child = Context(EmptyRes, {}),
                                             !.elemResp = NoResp,
                                             !.passed = EmptyRes, !.via = "none",
                                             !.elemLog = <<>>, !.bound = <<>>,
                                             !.checked = <<>>,
                                             !.declared = r,
                                             !.evald = Append(@, Top.i),
                                             !.ev = <<"list">>,
                                             !.ckptRes = EmptyRes,
                                             !.added = FALSE])
              /\ g' = Step(g)
              /\ result' = result
    /\ UNCHANGED <<jsonCtx, ckpts, nextRes, unmatched, mutateResp, targets, ruleResponse>>

\* mutateElements without the reversal of lines 73-75
EnterElementsNoInvert ==
    /\ At("enter")
    /\ ckpts' = Checkpoint(jsonCtx, ckpts)
    /\ stack' = SetTop([Top EXCEPT
            !.patchedResource = Top.resource,
            !.elPatches = <<>>,
            !.index = 0, !.elemLog = <<>>, !.bound = <<>>, !.checked = <<>>,
            !.ev = Append(@, "checkpoint"), !.ckptRes = jsonCtx.resource,
            !.pc = "element"])
    /\ UNCHANGED <<jsonCtx, result, nextRes, budget, unmatched, g, mutateResp, targets, ruleResponse>>

\* mutateElements, lines 68-75: checkpoint, locals, reversal
EnterElements ==
    /\ At("enter")
    /\ ckpts' = Checkpoint(jsonCtx, ckpts)
    /\ stack' = SetTop([Top EXCEPT
            !.patchedResource = Top.resource,
            !.elPatches = <<>>,
            !.elements = IF Cur(Top).smp THEN InvertedElement(@) ELSE @,
            !.index = 0, !.elemLog = <<>>, !.bound = <<>>, !.checked = <<>>,
            !.ev = Append(@, "checkpoint"), !.ckptRes = jsonCtx.resource,
            !.pc = "element"])
    /\ UNCHANGED <<jsonCtx, result, nextRes, budget, unmatched, g, mutateResp, targets, ruleResponse>>

\* lines 77-80: a nil element
SkipNilElement ==
    /\ At("element") /\ Top.index < Len(Top.elements)
    /\ Top.elements[Top.index + 1] = Null
    /\ stack' = SetTop([Top EXCEPT !.index = @ + 1])
    /\ UNCHANGED <<jsonCtx, ckpts, result, nextRes, budget, unmatched, g, mutateResp, targets, ruleResponse>>

\* BindElement without the Reset of line 82
BindElementNoReset ==
    /\ At("element") /\ Top.index < Len(Top.elements)
    /\ Top.elements[Top.index + 1] # Null
    /\ LET ctx == jsonCtx
           policyContext == Copy(ctx)
       IN \E ok \in BOOLEAN :
            IF ok
            THEN /\ stack' = SetTop([Top EXCEPT
                        !.child = AddElementToContext(policyContext,
                                      Top.elements[Top.index + 1], Top.index,
                                      Top.nesting, Top.i),
                        !.bound = Append(@, Top.elements[Top.index + 1]),
                        !.ev = Append(@, "element"),
                        !.pc = "load"])
                 /\ jsonCtx' = ctx
                 /\ g' = Step(g)
                 /\ UNCHANGED <<ckpts, unmatched>>
            ELSE LET resp == NewErrorResponse(
                        "failed to add element to mutate.foreach["
                            \o ToString(Top.index) \o "].context", "bindErr")
                 IN /\ ReturnElements(
                           [Top EXCEPT !.bound = Append(@, Top.elements[Top.index + 1]),
                                       !.ev = Append(@, "element")],
                           resp, ctx)
                    /\ g' = Err(Step(g), resp, "elements")
    /\ UNCHANGED <<result, nextRes, budget, mutateResp, targets, ruleResponse>>

\* lines 82-88: Reset, Copy, AddElementToContext
BindElement ==
    /\ At("element") /\ Top.index < Len(Top.elements)
    /\ Top.elements[Top.index + 1] # Null
    /\ LET ctx == Reset(jsonCtx, ckpts)
           policyContext == Copy(ctx)
       IN \E ok \in BOOLEAN :
            IF ok
            THEN /\ stack' = SetTop([Top EXCEPT
                        !.child = AddElementToContext(policyContext,
                                      Top.elements[Top.index + 1], Top.index,
                                      Top.nesting, Top.i),
                        !.bound = Append(@, Top.elements[Top.index + 1]),
                        !.ev = Append(@, "element"),
                        !.pc = "load"])
                 /\ jsonCtx' = ctx
                 /\ g' = Step(g)
                 /\ UNCHANGED <<ckpts, unmatched>>
            ELSE LET resp == NewErrorResponse(
                        "failed to add element to mutate.foreach["
                            \o ToString(Top.index) \o "].context", "bindErr")
                 IN /\ ReturnElements(
                           [Top EXCEPT !.bound = Append(@, Top.elements[Top.index + 1]),
                                       !.ev = Append(@, "element")],
                           resp, ctx)
                    /\ g' = Err(Step(g), resp, "elements")
    /\ UNCHANGED <<result, nextRes, budget, mutateResp, targets, ruleResponse>>

\* lines 90-92: contextLoader
LoadElementContext ==
    /\ At("load")
    /\ \E ok \in BOOLEAN :
         IF ok
         THEN /\ stack' = SetTop([Top EXCEPT
                     !.child = LoadContext(@, Top.elements[Top.index + 1],
                                   Top.index, Top.nesting, Top.i),
                     !.pc = "precond"])
              /\ g' = Step(g)
              /\ UNCHANGED <<jsonCtx, ckpts, unmatched>>
         ELSE LET resp == NewErrorResponse(
                     "failed to load to mutate.foreach["
                         \o ToString(Top.index) \o "].context", "loadErr")
              IN /\ ReturnElements(Top, resp, jsonCtx)
                 /\ g' = Err(Step(g), resp, "elements")
    /\ UNCHANGED <<result, nextRes, budget, mutateResp, targets, ruleResponse>>

\* CheckPreconditions going round the loop without moving to the next element
CheckPreconditionsRetry ==
    /\ At("precond")
    /\ \E r \in {"true", "false", "err"} :
         CASE r = "true" ->
                /\ stack' = SetTop([Top EXCEPT !.pc = "mutate",
                        !.checked = Append(@, [index |-> Top.index, result |-> "true"])])
                /\ g' = [Step(g) EXCEPT !.anyPassed = TRUE]
                /\ UNCHANGED <<jsonCtx, ckpts, unmatched>>
           [] r = "false" ->
                /\ stack' = SetTop([Top EXCEPT !.pc = "element",
                        !.checked = Append(@, [index |-> Top.index, result |-> "false"])])
                /\ g' = Step(g)
                /\ UNCHANGED <<jsonCtx, ckpts, unmatched>>
           [] r = "err" ->
                LET resp == NewErrorResponse(
                        "failed to evaluate mutate.foreach["
                            \o ToString(Top.index) \o "].preconditions", "precondErr")
                IN /\ ReturnElements(
                          [Top EXCEPT !.checked =
                               Append(@, [index |-> Top.index, result |-> "error"])],
                          resp, jsonCtx)
                   /\ g' = Err(Step(g), resp, "elements")
    /\ UNCHANGED <<result, nextRes, budget, mutateResp, targets, ruleResponse>>

\* CheckPreconditions without the continue of line 101
CheckPreconditionsNoContinue ==
    /\ At("precond")
    /\ \E r \in {"true", "false", "err"} :
         CASE r = "true" ->
                /\ stack' = SetTop([Top EXCEPT !.pc = "mutate",
                        !.checked = Append(@, [index |-> Top.index, result |-> "true"])])
                /\ g' = [Step(g) EXCEPT !.anyPassed = TRUE]
                /\ UNCHANGED <<jsonCtx, ckpts, unmatched>>
           [] r = "false" ->
                /\ stack' = SetTop([Top EXCEPT !.pc = "mutate",
                        !.checked = Append(@, [index |-> Top.index, result |-> "false"])])
                /\ g' = Step(g)
                /\ UNCHANGED <<jsonCtx, ckpts, unmatched>>
           [] r = "err" ->
                LET resp == NewErrorResponse(
                        "failed to evaluate mutate.foreach["
                            \o ToString(Top.index) \o "].preconditions", "precondErr")
                IN /\ ReturnElements(
                          [Top EXCEPT !.checked =
                               Append(@, [index |-> Top.index, result |-> "error"])],
                          resp, jsonCtx)
                   /\ g' = Err(Step(g), resp, "elements")
    /\ UNCHANGED <<result, nextRes, budget, mutateResp, targets, ruleResponse>>

\* lines 94-102: CheckPreconditions
CheckPreconditions ==
    /\ At("precond")
    /\ \E r \in {"true", "false", "err"} :
         CASE r = "true" ->
                /\ stack' = SetTop([Top EXCEPT !.pc = "mutate",
                        !.checked = Append(@, [index |-> Top.index, result |-> "true"])])
                /\ g' = [Step(g) EXCEPT !.anyPassed = TRUE]
                /\ UNCHANGED <<jsonCtx, ckpts, unmatched>>
           [] r = "false" ->
                /\ stack' = SetTop([Top EXCEPT !.index = @ + 1, !.pc = "element",
                        !.checked = Append(@, [index |-> Top.index, result |-> "false"])])
                /\ g' = Step(g)
                /\ UNCHANGED <<jsonCtx, ckpts, unmatched>>
           [] r = "err" ->
                LET resp == NewErrorResponse(
                        "failed to evaluate mutate.foreach["
                            \o ToString(Top.index) \o "].preconditions", "precondErr")
                IN /\ ReturnElements(
                          [Top EXCEPT !.checked =
                               Append(@, [index |-> Top.index, result |-> "error"])],
                          resp, jsonCtx)
                   /\ g' = Err(Step(g), resp, "elements")
    /\ UNCHANGED <<result, nextRes, budget, mutateResp, targets, ruleResponse>>

\* line 123: mutate.ForEach on a leaf spec
MutateLeaf ==
    /\ At("mutate") /\ Cur(Top).kind = "nil"
    /\ \E resp \in MutatorResponses(Top.elements[Top.index + 1], nextRes) :
         /\ stack' = SetTop([Top EXCEPT !.elemResp = resp, !.pc = "result",
                                        !.passed = Top.patchedResource,
                                        !.via = "mutator"])
         /\ nextRes' = IF resp.status = "pass" THEN nextRes + 1 ELSE nextRes
         /\ g' = LET s == Step(g)
                 IN CASE resp.status = "error" -> Err(s, resp, "elements")
                      [] resp.status = "fail" -> [s EXCEPT !.failed = TRUE]
                      [] OTHER -> s
    /\ UNCHANGED <<jsonCtx, ckpts, result, budget, unmatched, mutateResp, targets, ruleResponse>>

\* CallNested handing its own nesting depth to the nested evaluator
CallNestedSameNesting ==
    /\ At("mutate") /\ Cur(Top).kind # "nil"
    /\ IF Cur(Top).kind = "bad"
       THEN LET resp == NewErrorResponse("failed to deserialize foreach", "jsonErr")
            IN /\ ReturnElements(Top, resp, jsonCtx)
               /\ g' = Err(Step(g), resp, "elements")
       ELSE /\ stack' = Append(
                   SetTop([Top EXCEPT !.pc = "wait", !.via = "nested",
                                      !.passed = Top.patchedResource]),
                   NewFrame(Cur(Top).list, Top.nesting, Top.patchedResource))
            /\ g' = Step(g)
            /\ UNCHANGED <<jsonCtx, ckpts, unmatched>>
    /\ UNCHANGED <<result, nextRes, budget, mutateResp, targets, ruleResponse>>

\* lines 105-121: a spec with a nested foreach list
CallNested ==
    /\ At("mutate") /\ Cur(Top).kind # "nil"
    /\ IF Cur(Top).kind = "bad"
       THEN LET resp == NewErrorResponse("failed to deserialize foreach", "jsonErr")
            IN /\ ReturnElements(Top, resp, jsonCtx)
               /\ g' = Err(Step(g), resp, "elements")
       ELSE /\ stack' = Append(
                   SetTop([Top EXCEPT !.pc = "wait", !.via = "nested",
                                      !.passed = Top.patchedResource]),
                   NewFrame(Cur(Top).list, Top.nesting + 1, Top.patchedResource))
            /\ g' = Step(g)
            /\ UNCHANGED <<jsonCtx, ckpts, unmatched>>
    /\ UNCHANGED <<result, nextRes, budget, mutateResp, targets, ruleResponse>>

\* ElementResult adopting the outcome's resource whether or not it carries
\* patches (lines 130-131 without the condition)
ElementResultAdoptAlways ==
    /\ At("result")
    /\ LET resp == Top.elemResp
           logged == [Top EXCEPT !.elemLog = Append(@,
                         [index |-> Top.index,
                          element |-> Top.elements[Top.index + 1],
                          resIn |-> Top.passed, via |-> Top.via,
                          resp |-> resp])]
       IN IF resp.status \in {"fail", "error"}
          THEN ReturnElements(logged, resp, jsonCtx)
          ELSE /\ stack' = SetTop(
                     [logged EXCEPT !.patchedResource = resp.patchedResource,
                                    !.elPatches = @ \o resp.patches,
                                    !.index = @ + 1, !.pc = "element"])
               /\ UNCHANGED <<jsonCtx, ckpts, unmatched>>
    /\ UNCHANGED <<result, nextRes, budget, g, mutateResp, targets, ruleResponse>>

\* lines 126-133: the outcome of one element
ElementResult ==
    /\ At("result")
    /\ LET resp == Top.elemResp
           logged == [Top EXCEPT !.elemLog = Append(@,
                         [index |-> Top.index,
                          element |-> Top.elements[Top.index + 1],
                          resIn |-> Top.passed, via |-> Top.via,
                          resp |-> resp])]
       IN IF resp.status \in {"fail", "error"}
          THEN ReturnElements(logged, resp, jsonCtx)
          ELSE /\ stack' = SetTop(
                     IF Len(resp.patches) > 0
                     THEN [logged EXCEPT !.patchedResource = resp.patchedResource,
                                         !.elPatches = @ \o resp.patches,
                                         !.index = @ + 1, !.pc = "element"]
                     ELSE [logged EXCEPT !.index = @ + 1, !.pc = "element"])
               /\ UNCHANGED <<jsonCtx, ckpts, unmatched>>
    /\ UNCHANGED <<result, nextRes, budget, g, mutateResp, targets, ruleResponse>>

\* ComposePatches leaving out the patches that do not parse instead of
\* returning at lines 139-141
ComposePatchesDropMalformed ==
    /\ At("element") /\ Top.index >= Len(Top.elements)
    /\ LET parsable == SelectSeq(Top.elPatches, UnmarshalOk)
           sortedPatches == FilterAndSortPatches(MapSeq(parsable, 1))
           finalPatches == MarshalAll(sortedPatches)
       IN \E marshalled \in {TRUE} \cup {FALSE : k \in 1..Len(sortedPatches)} :
            IF marshalled
            THEN /\ ReturnElements(Top, NewResponse("pass", Top.patchedResource,
                                                    finalPatches, ""), jsonCtx)
                 /\ g' = g
            ELSE LET resp == NewErrorResponse("failed to marshal patch", "marshalErr")
                 IN /\ ReturnElements(Top, resp, jsonCtx)
                    /\ g' = Err(g, resp, "elements")
    /\ UNCHANGED <<result, nextRes, budget, mutateResp, targets, ruleResponse>>

\* lines 135-152: parse, compose and marshal the collected patches
ComposePatches ==
    /\ At("element") /\ Top.index >= Len(Top.elements)
    /\ IF \E k \in 1..Len(Top.elPatches) : ~UnmarshalOk(Top.elPatches[k])
       THEN LET resp == NewErrorResponse("failed to convert patch", "parseErr")
            IN /\ ReturnElements(Top, resp, jsonCtx)
               /\ g' = Err(g, resp, "elements")
       ELSE LET sortedPatches == FilterAndSortPatches(MapSeq(Top.elPatches, 1))
                finalPatches == MarshalAll(sortedPatches)
            IN \E marshalled \in {TRUE} \cup {FALSE : k \in 1..Len(sortedPatches)} :
                 IF marshalled
                 THEN /\ ReturnElements(Top, NewResponse("pass", Top.patchedResource,
                                                         finalPatches, ""), jsonCtx)
                      /\ g' = g
                 ELSE LET resp == NewErrorResponse("failed to marshal patch", "marshalErr")
                      IN /\ ReturnElements(Top, resp, jsonCtx)
                         /\ g' = Err(g, resp, "elements")
    /\ UNCHANGED <<result, nextRes, budget, mutateResp, targets, ruleResponse>>

\* SpecResult whose AddResource was made before the deferred Restore of
\* mutateElements ran, which put the checkpointed context back over it
SpecResultAddUndone ==
    /\ At("specResult")
    /\ LET resp == Top.specResp
       IN IF resp.status = "error"
          THEN /\ ReturnForEach(Top, NewErrorResponse("failed to mutate elements", NoErr))
               /\ jsonCtx' = jsonCtx
          ELSE IF resp.status # "skip"
          THEN \E added \in BOOLEAN :
               /\ stack' = SetTop(
                     [(IF Len(resp.patches) > 0
                       THEN [Top EXCEPT !.applyCount = @ + 1,
                                        !.resource = resp.patchedResource,
                                        !.allPatches = @ \o resp.patches]
                       ELSE [Top EXCEPT !.applyCount = @ + 1])
                      EXCEPT !.specLog = Append(@, resp.patches),
                             !.ev = Append(@, "addResource"), !.added = added,
                             !.setRes = IF Len(resp.patches) > 0
                                        THEN resp.patchedResource ELSE Top.resource,
                             !.setCtx = IF added THEN resp.patchedResource
                                                 ELSE jsonCtx.resource,
                             !.i = @ + 1, !.pc = "loop"])
               /\ jsonCtx' = jsonCtx
               /\ result' = result
          ELSE /\ stack' = SetTop([Top EXCEPT !.i = @ + 1, !.pc = "loop",
                                               !.specLog = Append(@, resp.patches)])
               /\ jsonCtx' = jsonCtx
               /\ result' = result
    /\ UNCHANGED <<ckpts, nextRes, budget, unmatched, g, mutateResp, targets, ruleResponse>>

\* SpecResult without the early return of lines 42-44
SpecResultNoAbort ==
    /\ At("specResult")
    /\ LET resp == Top.specResp
       IN IF resp.status # "skip"
          THEN \E added \in BOOLEAN :
               /\ stack' = SetTop(
                     [(IF Len(resp.patches) > 0
                       THEN [Top EXCEPT !.applyCount = @ + 1,
                                        !.resource = resp.patchedResource,
                                        !.allPatches = @ \o resp.patches]
                       ELSE [Top EXCEPT !.applyCount = @ + 1])
                      EXCEPT !.specLog = Append(@, resp.patches),
                             !.ev = Append(@, "addResource"), !.added = added,
                             !.setRes = IF Len(resp.patches) > 0
                                        THEN resp.patchedResource ELSE Top.resource,
                             !.setCtx = IF added THEN resp.patchedResource
                                                 ELSE jsonCtx.resource,
                             !.i = @ + 1, !.pc = "loop"])
               /\ jsonCtx' = IF added
                             THEN AddResource(jsonCtx, resp.patchedResource)
                             ELSE jsonCtx
               /\ result' = result
          ELSE /\ stack' = SetTop([Top EXCEPT !.i = @ + 1, !.pc = "loop",
                                               !.specLog = Append(@, resp.patches)])
               /\ jsonCtx' = jsonCtx
               /\ result' = result
    /\ UNCHANGED <<ckpts, nextRes, budget, unmatched, g, mutateResp, targets, ruleResponse>>

\* mutateForEach, lines 42-56: the outcome of one spec; an error of AddResource
\* is logged and nothing else (lines 53-55)
SpecResult ==
    /\ At("specResult")
    /\ LET resp == Top.specResp
       IN IF resp.status = "error"
          THEN /\ ReturnForEach(Top, NewErrorResponse("failed to mutate elements", NoErr))
               /\ jsonCtx' = jsonCtx
          ELSE IF resp.status # "skip"
          THEN \E added \in BOOLEAN :
               /\ stack' = SetTop(
                     [(IF Len(resp.patches) > 0
                       THEN [Top EXCEPT !.applyCount = @ + 1,
                                        !.resource = resp.patchedResource,
                                        !.allPatches = @ \o resp.patches]
                       ELSE [Top EXCEPT !.applyCount = @ + 1])
                      EXCEPT !.specLog = Append(@, resp.patches),
                             !.ev = Append(@, "addResource"), !.added = added,
                             !.setRes = IF Len(resp.patches) > 0
                                        THEN resp.patchedResource ELSE Top.resource,
                             !.setCtx = IF added THEN resp.patchedResource
                                                 ELSE jsonCtx.resource,
                             !.i = @ + 1, !.pc = "loop"])
               /\ jsonCtx' = IF added
                             THEN AddResource(jsonCtx, resp.patchedResource)
                             ELSE jsonCtx
               /\ result' = result
          ELSE /\ stack' = SetTop([Top EXCEPT !.i = @ + 1, !.pc = "loop",
                                               !.specLog = Append(@, resp.patches)])
               /\ jsonCtx' = jsonCtx
               /\ result' = result
    /\ UNCHANGED <<ckpts, nextRes, budget, unmatched, g, mutateResp, targets, ruleResponse>>

\* ForEachReturn handing back the patches of the last spec only
ForEachReturnLastSpec ==
    /\ At("loop") /\ Top.i > Len(Top.foreach)
    /\ LET msg == ToString(Top.applyCount) \o " elements processed"
       IN ReturnForEach([Top EXCEPT !.ckptRes = EmptyRes, !.added = FALSE],
              NewResponse(IF Top.applyCount = 0 THEN "skip" ELSE "pass",
                          Top.resource, Top.specResp.patches, msg))
    /\ UNCHANGED <<jsonCtx, ckpts, nextRes, budget, unmatched, g, mutateResp, targets, ruleResponse>>

\* mutateForEach, lines 59-64: all specs done
ForEachReturn ==
    /\ At("loop") /\ Top.i > Len(Top.foreach)
    /\ LET msg == ToString(Top.applyCount) \o " elements processed"
       IN ReturnForEach([Top EXCEPT !.ckptRes = EmptyRes, !.added = FALSE],
              NewResponse(IF Top.applyCount = 0 THEN "skip" ELSE "pass",
                          Top.resource, Top.allPatches, msg))
    /\ UNCHANGED <<jsonCtx, ckpts, nextRes, budget, unmatched, g, mutateResp, targets, ruleResponse>>

Next ==
    \/ EvaluateList
    \/ EnterElements
    \/ SkipNilElement
    \/ BindElement
    \/ LoadElementContext
    \/ CheckPreconditions
    \/ MutateLeaf
    \/ CallNested
    \/ ElementResult
    \/ ComposePatches
    \/ SpecResult
    \/ ForEachReturn

Spec == Init /\ [][Next]_vars

Done == stack # <<>> /\ stack[1].pc = "done"

TypeOK == Len(stack) <= MaxNesting + 1

\* ------------------------------------------------------- buildRuleResponse
MaxTargets == 1
MaxPatches == 2

\* an unstructured.Unstructured as buildSuccessMessage reads it
Unstructured(object, namespace) ==
    [object |-> object, kind |-> "Pod", name |-> "p", namespace |-> namespace]
Resources ==
    {Unstructured(FALSE, ""), Unstructured(TRUE, ""), Unstructured(TRUE, "ns")}
PatchLists == {[k \in 1..n |-> RawPatch(k, k)] : n \in 0..MaxPatches}
\* the mutate.Response values a caller can hand to buildRuleResponse
Outcomes ==
    {Response(st, r, p, m, NoErr) :
        st \in {"pass", "skip", "fail", "error"}, r \in Resources,
        p \in PatchLists, m \in {"", "failed to mutate elements"}}
resourceInfo == [parentResourceGVR |-> "v1/pods", subresource |-> "status"]

\* engineapi.NewRuleResponse, WithPatches, WithPatchedTarget
NewRuleResponse(name, ruleType, message, status) ==
    [name |-> name, ruleType |-> ruleType, message |-> message,
     status |-> status, patches |-> <<>>, patchedTarget |-> <<>>]
WithPatches(resp, patches) == [resp EXCEPT !.patches = patches]
WithPatchedTarget(resp, resource, gvr, subresource) ==
    [resp EXCEPT !.patchedTarget =
        <<[resource |-> resource, gvr |-> gvr, subresource |-> subresource]>>]

\* lines 175-183
buildSuccessMessage(r) ==
    IF ~r.object THEN "mutated resource"
    ELSE IF r.namespace = "" THEN "mutated " \o r.kind \o "/" \o r.name
    ELSE "mutated " \o r.kind \o "/" \o r.name \o " in namespace " \o r.namespace

\* buildRuleResponse attaching the patches whatever the status
buildRuleResponseAnyStatus(rl, resp, info) ==
    LET message == IF resp.status = "pass"
                   THEN buildSuccessMessage(resp.patchedResource)
                   ELSE resp.message
        r0 == NewRuleResponse(rl.name, "Mutation", message, resp.status)
        r1 == WithPatches(r0, resp.patches)
    IN IF resp.status = "pass" /\ rl.targets # 0
       THEN WithPatchedTarget(r1, resp.patchedResource,
                              info.parentResourceGVR, info.subresource)
       ELSE r1

\* lines 155-173
buildRuleResponse(rl, resp, info) ==
    LET message == IF resp.status = "pass"
                   THEN buildSuccessMessage(resp.patchedResource)
                   ELSE resp.message
        r0 == NewRuleResponse(rl.name, "Mutation", message, resp.status)
        r1 == IF resp.status = "pass" THEN WithPatches(r0, resp.patches) ELSE r0
    IN IF resp.status = "pass" /\ rl.targets # 0
       THEN WithPatchedTarget(r1, resp.patchedResource,
                              info.parentResourceGVR, info.subresource)
       ELSE r1

\* a caller holding an outcome and a rule with some number of targets
InitBuild ==
    /\ mutateResp \in Outcomes
    /\ targets \in 0..MaxTargets
    /\ ruleResponse = <<>>
    /\ stack = <<>>
    /\ jsonCtx = Context(BaseRes, {})
    /\ ckpts = <<>>
    /\ result = NoResp
    /\ nextRes = BaseRes + 1
    /\ budget = 0
    /\ unmatched = FALSE
    /\ g = [errored |-> FALSE, failed |-> FALSE, afterErr |-> FALSE,
            afterFail |-> FALSE, anyPassed |-> FALSE, origin |-> NoResp,
            where |-> "none"]

BuildRuleResponse ==
    /\ ruleResponse = <<>>
    /\ ruleResponse' = <<buildRuleResponse([name |-> "rule", targets |-> targets],
                                           mutateResp, resourceInfo)>>
    /\ UNCHANGED <<stack, jsonCtx, ckpts, result, nextRes, budget, unmatched, g,
                   mutateResp, targets>>

NextBuild == BuildRuleResponse

SpecBuild == InitBuild /\ [][NextBuild]_vars

\* ---------------------------------------------------------------- claims
\* the frames whose mutateElements holds a checkpoint
InElements(f) == f.pc \in {"element", "load", "precond", "mutate", "wait", "result"}
Outstanding == Cardinality({k \in 1..Len(stack) : InElements(stack[k])})
\* the frames whose element has its child context bound
Bound(f) == f.pc \in {"load", "precond", "mutate", "wait", "result"}
\* the elements of the frame's spec that reached the mutator or a nested call
Processed(f) == Len(f.elemLog)
GoodPatch(resp) ==
    resp.status = "pass" /\ Len(resp.patches) = 1 /\ UnmarshalOk(resp.patches[1])

\* C1: with no step raising an error, the top-level outcome is Skip iff no
\* element of any spec passed its preconditions and Pass otherwise; a rule of
\* one spec with an empty list returns Skip, "0 elements processed", no
\* patches.
C1_SkipIffNonePassed ==
    (Done /\ ~g.errored) =>
        /\ result.status = (IF g.anyPassed THEN "pass" ELSE "skip")
        /\ (Len(rule) = 1 /\ stack[1].elements = <<>>) =>
              /\ result.message = "0 elements processed"
              /\ result.patches = <<>>

\* C2: a single leaf spec whose N >= 1 elements are all non-nil, all pass
\* their preconditions and each yield one well-formed patch at its own path
\* returns Pass, "N elements processed" and N patches.
C2_MessageCountsElements ==
    LET f == stack[1]
        N == Len(f.elements)
    IN (/\ Done /\ Len(rule) = 1 /\ rule[1].kind = "nil"
        /\ N >= 1 /\ Processed(f) = N
        /\ \A k \in 1..N : GoodPatch(f.elemLog[k].resp))
       => /\ result.status = "pass"
          /\ result.message = ToString(N) \o " elements processed"
          /\ Len(result.patches) = N

\* C3: a Fail outcome of an element aborts the rule: no later element or
\* spec is evaluated and the top-level outcome has status Fail.
C3_FailAborts ==
    /\ ~g.afterFail
    /\ (Done /\ g.failed) => result.status = "fail"

\* C4: an error step is fatal at every nesting level: once it has occurred
\* no list evaluation, element binding, context load, precondition check,
\* mutator call or nested call is made, and the top-level outcome is Error.
C4_ErrorIsFatal ==
    /\ ~g.afterErr
    /\ (Done /\ g.errored) => result.status = "error"
\* an error in the first of two specs, returned as Error
C4_Witness ==
    /\ Done /\ g.errored /\ result.status = "error"
    /\ Len(rule) = 2 /\ stack[1].i = 1

\* C5: whenever a step fails (a list evaluation, or an element ending in
\* Fail or Error), the top-level outcome is not Pass and carries no patches.
C5_NoPartialResult ==
    (Done /\ (g.errored \/ g.failed)) =>
        result.status # "pass" /\ result.patches = <<>>

\* C6: an error raised inside a spec's element evaluation reaches the caller
\* of the top-level call unchanged: same message, same cause.
C6_ErrorUnchanged ==
    (Done /\ g.errored /\ g.where = "elements") =>
        /\ result.status = "error"
        /\ result.message = g.origin.message
        /\ result.cause = g.origin.cause

\* C7: what was added to the context while processing an element is visible
\* neither to the next element of the spec nor after the spec: the child
\* context of an element holds the bindings of that element only, over the
\* resource checkpointed on entering the spec, and the shared context holds
\* no binding of this nesting level when a list is evaluated.
C7_BindingsScoped ==
    /\ \A k \in 1..Len(stack) :
         LET f == stack[k]
         IN Bound(f) =>
              /\ \A b \in f.child.bindings :
                    b.nesting = f.nesting /\ b.spec = f.i /\ b.index = f.index
              /\ k <= Len(ckpts) => f.child.resource = ckpts[k].resource
    /\ (At("loop") \/ At("enter") \/ At("element")) =>
          \A b \in jsonCtx.bindings : b.nesting < Top.nesting
\* the element after one that reached the mutator has its context bound
C7_Witness ==
    /\ At("load") /\ Top.index = 1 /\ Processed(Top) = 1
    /\ Cardinality(Top.child.bindings) = 1

\* C8: every checkpoint is matched by exactly one restore on every exit path
\* of mutateElements: the checkpoint stack holds one entry per element loop
\* in progress, is empty when the top-level call returns, and no restore is
\* issued on an empty stack.
C8_CheckpointsMatched ==
    /\ ~unmatched
    /\ Len(ckpts) = Outstanding
    /\ Done => ckpts = <<>>
\* the top-level call has returned after an element of a spec raised an error
C8_Witness ==
    /\ Done /\ g.errored /\ g.where = "elements" /\ ckpts = <<>>

\* the resource the n-th processed element of a spec is due: that of the
\* latest earlier element with patches, else the spec's base
Due(f, n) ==
    LET js == {j \in 1..(n - 1) : j <= Processed(f) /\ Len(f.elemLog[j].resp.patches) > 0}
    IN IF js = {} THEN f.resource ELSE f.elemLog[Max(js)].resp.patchedResource

\* C9: within one spec the resource handed to the mutator, or to the nested
\* evaluator, for the n-th processed element is the patched resource of the
\* latest earlier element of the spec that produced a patch, or the spec's
\* base resource; elements without patches never change it.
C9_ResourceThreaded ==
    \A k \in 1..Len(stack) :
        LET f == stack[k]
        IN (InElements(f) \/ f.pc = "specResult") =>
              /\ \A n \in 1..Processed(f) : f.elemLog[n].resIn = Due(f, n)
              /\ f.pc \in {"wait", "result"} => f.passed = Due(f, Processed(f) + 1)
              /\ (f.pc = "wait" /\ stack[k + 1].i = 1) =>
                     stack[k + 1].resource = f.passed
\* the second processed element of a spec was handed the resource patched
\* by the first
C9_Witness ==
    /\ At("element") /\ Processed(Top) = 2
    /\ Len(Top.elemLog[1].resp.patches) > 0
    /\ Top.elemLog[2].resIn = Top.elemLog[1].resp.patchedResource
    /\ Top.elemLog[2].resIn # Top.resource

\* C10: when a spec completes without Error, its final accumulated resource
\* is the base resource of the next spec, and the resource of the returned
\* outcome if it was the last spec, whenever it differs from the spec's base.
C10_AccumBecomesBase ==
    \A k \in 1..Len(stack) :
        LET f == stack[k]
        IN (f.specDone /\ f.pc # "specResult" /\ f.specAccum # f.specBase) =>
              /\ f.resource = f.specAccum
              /\ (k = 1 /\ Done /\ f.i > Len(f.foreach)) =>
                     result.patchedResource = f.specAccum

\* the non-nil entries of a list, in order
NonNull(s) == SelectSeq(s, LAMBDA e : e # Null)
IsPrefix(p, s) == Len(p) <= Len(s) /\ p = SubSeq(s, 1, Len(p))
\* the frames whose bound, checked and elemLog describe the spec f.i
InSpec(f) == InElements(f) \/ f.pc = "specResult"

\* C11: the elements of a spec are bound in the reverse of the order the list
\* evaluation returned them when the spec has a strategic-merge patch and in
\* that order otherwise; a loop that ran to its end has bound every non-nil
\* element of the list under either strategy.
C11_StrategicMergeReverses ==
    [](\A k \in 1..Len(stack) :
           LET f == stack[k]
               want == IF Cur(f).smp THEN Reverse(NonNull(f.declared))
                                     ELSE NonNull(f.declared)
           IN InSpec(f) =>
                 /\ IsPrefix(f.bound, want)
                 /\ f.index = Len(f.elements) => f.bound = want)

C11_Witness ==
    \E k \in 1..Len(stack) :
        /\ InSpec(stack[k]) /\ Cur(stack[k]).smp
        /\ stack[k].declared = <<1, 2>> /\ stack[k].bound = <<2, 1>>

\* C12: the rule response carries patches only for a Pass outcome: for Skip,
\* Fail and Error it has no patches, no patched target and the outcome's own
\* message; for Pass it has exactly the outcome's patches, and a patched
\* target exactly when the rule declares at least one mutation target.
C12_PatchesOnlyOnPass ==
    ruleResponse # <<>> =>
        LET rr == ruleResponse[1]
        IN /\ rr.status = mutateResp.status
           /\ mutateResp.status # "pass" =>
                 /\ rr.patches = <<>>
                 /\ rr.patchedTarget = <<>>
                 /\ rr.message = mutateResp.message
           /\ mutateResp.status = "pass" =>
                 /\ rr.patches = mutateResp.patches
                 /\ (rr.patchedTarget # <<>>) <=> (targets >= 1)

C12_Witness ==
    /\ ruleResponse # <<>>
    /\ mutateResp.status = "fail" /\ mutateResp.patches # <<>> /\ targets >= 1

\* the position, counted from 0, of the current element of f in the list as
\* the list evaluation returned it
DeclaredIndex(f) ==
    (CHOOSE p \in 1..Len(f.declared) :
        f.declared[p] = f.elements[f.index + 1]) - 1

\* C13: under every patch strategy the index bound into an element's context
\* is the element's position in the list as the list evaluation returned it,
\* nil entries counted, and the bound nesting depth is the evaluator's.
C13_IndexIsDeclaredPosition ==
    \A k \in 1..Len(stack) :
        LET f == stack[k]
        IN Bound(f) =>
              \A b \in f.child.bindings :
                  (b.name = "element" /\ b.value = f.elements[f.index + 1]) =>
                      /\ b.index = DeclaredIndex(f)
                      /\ b.nesting = f.nesting

\* the patches mutateElements has collected from the logged elements
RECURSIVE Collected(_)
Collected(log) ==
    IF log = <<>> THEN <<>>
    ELSE Collected(Front(log)) \o
         (IF Last(log).resp.status \in {"fail", "error"} THEN <<>>
          ELSE Last(log).resp.patches)

\* C14: a nil element and an element whose preconditions are false leave no
\* trace: only non-nil elements are bound, loaded or checked; the mutator or
\* the nested evaluator runs only for elements whose preconditions were true;
\* the accumulated resource and the collected patches are those of the
\* elements that reached the mutator; the loop moves on past an element whose
\* preconditions are false, and a spec with only such elements returns Pass.
C14_SkippedElementsInert ==
    [](\A k \in 1..Len(stack) :
           LET f == stack[k]
           IN InSpec(f) =>
                 /\ \A j \in 1..Len(f.bound) : f.bound[j] # Null
                 /\ Len(f.checked) <= Len(f.bound)
                 /\ \A j \in 1..Len(f.checked) :
                       /\ f.elements[f.checked[j].index + 1] # Null
                       /\ f.checked[j].result = "false" => f.checked[j].index < f.index
                 /\ \A n \in 1..Processed(f) :
                       [index |-> f.elemLog[n].index, result |-> "true"]
                           \in {f.checked[j] : j \in 1..Len(f.checked)}
                 /\ f.pc \in {"mutate", "wait", "result"} =>
                       Last(f.checked) = [index |-> f.index, result |-> "true"]
                 /\ f.elPatches = Collected(f.elemLog)
                 /\ f.patchedResource = Due(f, Processed(f) + 1)
                 /\ (/\ f.pc = "specResult" /\ f.elemLog = <<>>
                     /\ Len(f.bound) = Len(f.checked)
                     /\ \A j \in 1..Len(f.checked) : f.checked[j].result = "false")
                    => f.specResp = NewResponse("pass", f.resource, <<>>, ""))

\* an element whose preconditions were false was followed by one that
\* reached the mutator
C14_Witness ==
    \E k \in 1..Len(stack) :
        /\ InSpec(stack[k]) /\ Len(stack[k].checked) = 2
        /\ stack[k].checked[1].result = "false"
        /\ Processed(stack[k]) = 1 /\ stack[k].elemLog[1].index = 1

\* the indices whose preconditions were true, in the order they were checked
PassedIndices(f) ==
    LET t == SelectSeq(f.checked, LAMBDA c : c.result = "true")
    IN [n \in 1..Len(t) |-> t[n].index]
\* 1 while the current element of f is at, or back from, the mutator or the
\* nested evaluator and not yet logged
InFlight(f) == IF f.pc \in {"mutate", "wait", "result"} THEN 1 ELSE 0

\* C15: a spec with a nested foreach list never calls the mutator: each of its
\* elements that passed the preconditions is handed to a new evaluator whose
\* nesting is one greater, whose list is the nested list, whose base resource
\* is the accumulated resource of the spec, and which works on the shared
\* context, free of the element's bindings; a spec without a nested list
\* calls the mutator exactly once for each element that passed.
C15_NestedDelegates ==
    [](\A k \in 1..Len(stack) :
           LET f == stack[k]
           IN InSpec(f) =>
                 /\ \A n \in 1..Processed(f) :
                       f.elemLog[n].via =
                           (IF Cur(f).kind = "nil" THEN "mutator" ELSE "nested")
                 /\ Cur(f).kind = "nil" =>
                       /\ f.pc # "wait"
                       /\ Processed(f) + InFlight(f) = Len(PassedIndices(f))
                       /\ \A n \in 1..Processed(f) :
                             f.elemLog[n].index = PassedIndices(f)[n]
                 /\ f.pc = "wait" =>
                       /\ Cur(f).kind = "list"
                       /\ k < Len(stack)
                       /\ stack[k + 1].nesting = f.nesting + 1
                       /\ stack[k + 1].foreach = Cur(f).list
                       /\ stack[k + 1].i = 1 => stack[k + 1].resource = f.patchedResource
                       /\ \A b \in f.child.bindings :
                             /\ b \notin jsonCtx.bindings
                             /\ Bound(stack[k + 1]) => b \notin stack[k + 1].child.bindings)

\* the nested evaluator is at an element of its own while the second element
\* of the outer spec waits for it
C15_Witness ==
    /\ Len(stack) = 2 /\ stack[1].pc = "wait" /\ stack[1].index = 1
    /\ stack[2].pc = "mutate" /\ stack[2].nesting = 1

\* the frames whose element loop ran to its end and whose spec has returned
\* from lines 135-152
Composed(f) == f.pc = "specResult" /\ f.index = Len(f.elements)
SomeMalformed(f) == \E n \in 1..Len(f.elPatches) : ~UnmarshalOk(f.elPatches[n])
ComposerOutput(f) == MarshalAll(FilterAndSortPatches(MapSeq(f.elPatches, 1)))

\* C16: a spec whose collected patches do not all parse returns Error with no
\* patches; a spec whose collected patches all parse returns Pass with exactly
\* the composed patches.
C16_MalformedNeverDropped ==
    \A k \in 1..Len(stack) :
        LET f == stack[k]
        IN Composed(f) =>
              IF SomeMalformed(f)
              THEN f.specResp.status = "error" /\ f.specResp.patches = <<>>
              ELSE /\ f.specResp.status = "pass"
                   /\ f.specResp.patches = ComposerOutput(f)

\* C16 amended: a spec whose collected patches do not all parse returns Error
\* with no patches; a spec whose collected patches all parse returns Pass with
\* exactly the composed patches, or, when a composed operation cannot be
\* marshalled, Error with no patches.
C16_MalformedOrMarshalError ==
    \A k \in 1..Len(stack) :
        LET f == stack[k]
        IN Composed(f) =>
              IF SomeMalformed(f)
              THEN /\ f.specResp.status = "error" /\ f.specResp.patches = <<>>
                   /\ f.specResp.cause = "parseErr"
              ELSE \/ /\ f.specResp.status = "pass"
                      /\ f.specResp.patches = ComposerOutput(f)
                      /\ f.specResp.patchedResource = f.patchedResource
                   \/ /\ f.specResp.status = "error" /\ f.specResp.patches = <<>>
                      /\ f.specResp.cause = "marshalErr"
                      /\ f.elPatches # <<>>

\* a spec collected a well-formed and a malformed patch and returned Error
C16_Witness ==
    \E k \in 1..Len(stack) :
        /\ Composed(stack[k]) /\ Len(stack[k].elPatches) = 2
        /\ UnmarshalOk(stack[k].elPatches[1]) /\ ~UnmarshalOk(stack[k].elPatches[2])
        /\ stack[k].specResp.status = "error"

RECURSIVE Flatten(_)
Flatten(ss) == IF ss = <<>> THEN <<>> ELSE Head(ss) \o Flatten(Tail(ss))

\* C17: the patches an evaluator has gathered are the concatenation, in spec
\* order, of the patch lists its completed specs returned, and a Pass outcome
\* of the rule carries exactly that concatenation over all its specs.
C17_PatchesConcatenated ==
    [](/\ \A k \in 1..Len(stack) :
             LET f == stack[k]
             IN /\ f.allPatches = Flatten(f.specLog)
                /\ f.pc # "done" => Len(f.specLog) = f.i - 1
       /\ (Done /\ result.status = "pass") =>
             /\ result.patches = Flatten(stack[1].specLog)
             /\ Len(stack[1].specLog) = Len(rule))

\* the rule returned Pass after two specs that each produced a patch
C17_Witness ==
    /\ Done /\ result.status = "pass" /\ Len(stack[1].specLog) = 2
    /\ stack[1].specLog[1] # <<>> /\ stack[1].specLog[2] # <<>>

\* the events of one spec come in the order list evaluation, checkpoint,
\* element steps, restore, AddResource
OrderedEvents(ev) ==
    \A j \in 1..Len(ev) :
        /\ (j = 1) <=> (ev[j] = "list")
        /\ (j = 2) <=> (ev[j] = "checkpoint")
        /\ ev[j] = "restore" => \A m \in 3..(j - 1) : ev[m] = "element"
        /\ ev[j] = "addResource" => j = Len(ev) /\ ev[j - 1] = "restore"
\* the evaluator on top of the stack is about to evaluate the list of a spec
\* that is not its first, or to return after its last
BetweenSpecs(k) == k = Len(stack) /\ stack[k].pc = "loop" /\ stack[k].i > 1

\* C18: for a spec that does not return Error the order is checkpoint,
\* element steps, restore, AddResource, list evaluation of the next spec, and
\* the context the next list is evaluated against holds the resource the spec
\* returned.
C18_AddResourceAfterRestore ==
    \A k \in 1..Len(stack) :
        LET f == stack[k]
        IN /\ OrderedEvents(f.ev)
           /\ InElements(f) => Last(f.ev) \in {"checkpoint", "element"}
           /\ BetweenSpecs(k) =>
                 /\ Last(f.ev) = "addResource"
                 /\ Len(ckpts) = k - 1
                 /\ jsonCtx.resource = f.specResp.patchedResource

\* C18 amended: the same order, and the context the next list is evaluated
\* against holds the resource the spec returned when AddResource succeeded
\* and the resource of the restored checkpoint when it failed.
C18_AddResourceUnlessItFails ==
    [](\A k \in 1..Len(stack) :
           LET f == stack[k]
           IN /\ OrderedEvents(f.ev)
              /\ InElements(f) => Last(f.ev) \in {"checkpoint", "element"}
              /\ BetweenSpecs(k) =>
                    /\ Last(f.ev) = "addResource"
                    /\ Len(ckpts) = k - 1
                    /\ jsonCtx.resource = (IF f.added THEN f.specResp.patchedResource
                                                      ELSE f.ckptRes))

\* a spec that patched the resource is over, AddResource succeeded, and the
\* next list is about to be evaluated against the patched resource
C18_Witness ==
    /\ BetweenSpecs(Len(stack)) /\ Top.i <= Len(Top.foreach) /\ Top.added
    /\ Top.specResp.patchedResource # Top.ckptRes
    /\ jsonCtx.resource = Top.specResp.patchedResource
    /\ Len(Top.ev) >= 5

\* C19: when the rule returns Error at a spec after the first, no checkpoint
\* is outstanding, and the evaluator's resource and the context's resource
\* are still the ones the last completed spec left: the resource adopted at
\* lines 48-49 and the resource AddResource wrote.
C19_ErrorIsNoRollback ==
    (Done /\ result.status = "error" /\ stack[1].i > 1) =>
        /\ ckpts = <<>>
        /\ stack[1].resource = stack[1].setRes
        /\ jsonCtx.resource = stack[1].setCtx

\* the rule returned Error at its second spec after the first had patched the
\* resource and written it to the context
C19_Witness ==
    /\ Done /\ result.status = "error" /\ stack[1].i = 2
    /\ stack[1].resource # BaseRes /\ jsonCtx.resource # BaseRes
    /\ stack[1].ev # <<"list">>

\* the steps one element can take, the nested evaluator's own included
ElementWeight == 4 * MaxSpecs + 7
\* the steps the frame f can still take, those of elements of lists not yet
\* evaluated left out
Rank(f) ==
    LET specs == 4 * (Len(f.foreach) - f.i + 1)
        later == (Len(f.elements) - f.index - 1) * ElementWeight
    IN CASE f.pc = "loop" -> IF f.i <= Len(f.foreach) THEN specs + 1 ELSE 1
         [] f.pc = "enter" -> specs + Len(f.elements) * ElementWeight
         [] f.pc = "element" -> specs - 1 + later + ElementWeight
         [] f.pc = "load" -> specs - 1 + later + ElementWeight - 1
         [] f.pc = "precond" -> specs - 1 + later + ElementWeight - 2
         [] f.pc = "mutate" -> specs - 1 + later + ElementWeight - 3
         [] f.pc = "wait" -> specs - 1 + later + 2
         [] f.pc = "result" -> specs - 1 + later + 1
         [] f.pc = "specResult" -> specs - 2
         [] OTHER -> 0
RECURSIVE SumRank(_)
SumRank(k) == IF k = 0 THEN 0 ELSE Rank(stack[k]) + SumRank(k - 1)
Measure == budget * ElementWeight + SumRank(Len(stack))
Increasing(s) == \A a, b \in 1..Len(s) : a < b => s[a] < s[b]
Indices(log) == [n \in 1..Len(log) |-> log[n].index]

\* each evaluator evaluates the lists of its specs once each and in order,
\* binds each element, checks its preconditions and calls the mutator or
\* the nested evaluator at most once, and sits one nesting level above its
\* caller
OnceEach ==
    \A k \in 1..Len(stack) :
        LET f == stack[k]
        IN /\ f.nesting = k - 1
           /\ \A j \in 1..Len(f.evald) : f.evald[j] = j
           /\ Len(f.evald) <= f.i
           /\ \A a, b \in 1..Len(f.bound) : a # b => f.bound[a] # f.bound[b]
           /\ Increasing(Indices(f.checked))
           /\ Increasing(Indices(f.elemLog))
           /\ Len(f.elemLog) <= Len(f.checked) /\ Len(f.checked) <= Len(f.bound)
           /\ InSpec(f) => Len(f.bound) <= Len(NonNull(f.elements))

\* C20: the evaluation terminates: every step lowers a measure that is never
\* negative, and a step is possible until the top-level call has returned;
\* along the way each list is evaluated once per invocation of its evaluator,
\* each non-nil element is bound, checked and mutated at most once, and the
\* nesting grows by one per level of recursion.
C20_Terminates ==
    /\ [](OnceEach /\ Measure >= 0 /\ (Done \/ ENABLED Next))
    /\ [][Measure' < Measure]_vars

\* a nested evaluator has returned to its caller, which went on to its next
\* spec, and the rule has returned
C20_Witness ==
    /\ Done /\ Len(stack[1].evald) = 2
    /\ \E n \in 1..Processed(stack[1]) : stack[1].elemLog[n].via = "nested"

====
